---------------------------- MODULE Spec2Model ----------------------------
(***************************************************************************)
(* The linear-chain CRF layer of bert4torch (src/bert4torch/layers.py,     *)
(* class CRF): construction of the transition matrix, the forward          *)
(* algorithm, the gold-path scorer, the training loss and the Viterbi      *)
(* decoder, as batched operations over padded inputs.                      *)
(*                                                                         *)
(* Tensors are functions over 0-based index ranges, as in the source.      *)
(* Emission and transition scores are integers.  A value that the source   *)
(* obtains through log-sum-exp is kept as the bag (finite multiset) of the *)
(* path scores whose log-sum-exp it is: log-sum-exp of values is bag       *)
(* union, adding a score shifts every member, adding two such values is    *)
(* the bag of pairwise sums.  torch.max / argmax run on integers exactly.  *)
(*                                                                         *)
(* With it, two position encodings of layers/position_encoding.py: the     *)
(* table cache of RoPEPositionEncoding and the clipped-distance table of   *)
(* RelativePositionsEncoding.                                              *)
(***************************************************************************)
EXTENDS Integers, FiniteSets, Bags, TLC

VARIABLES num_labels, transitions, updates, uninit, pc, args, feats, mask, tags, ret, locals,
          max_seq_len_cache, cos_position, sin_position, requested, position_embeddings

vars == <<num_labels, transitions, updates, uninit, pc, args, feats, mask, tags, ret, locals,
          max_seq_len_cache, cos_position, sin_position, requested, position_embeddings>>

\* The state of the position encodings of layers/position_encoding.py: of a
\* RoPEPositionEncoding, with the largest seq_len requested of it so far, and
\* of a RelativePositionsEncoding.
rope_vars == <<max_seq_len_cache, cos_position, sin_position, requested>>

rel_vars == <<position_embeddings>>

\* The state of the CRF and of its callers' tensors.
crf_vars == <<num_labels, transitions, updates, uninit, feats, mask, tags>>

(***************************************************************************)
(* Bounds of the model.                                                    *)
(***************************************************************************)
MaxLabels == 2
MaxBatch == 2
MaxSeqLen == 3
MaxNonzero == 2
MaxUpdates == 1

MaxTrainNonzero == 1
\* Position ids are in 0 .. MaxPosition.
MaxPosition == 3
\* max_relative_position is in 0 .. MaxRelative.
MaxRelative == 2

\* The values a nonzero emission entry takes, the values the optimizer
\* writes, and the gold tag a data pipeline may leave at a padded position.
EmitVals == {2}
TransVals == {3}
PadTagVals == {-1}

\* The values training may give the transitions START -> 0, 0 -> 0, 0 -> END.
PreferVals == {1, 7}

\* Scores of large magnitude.
LargeVals == {-1000000, 1000000}

\* What memory that is handed out again may hold.
GarbageVals == {0, 7}

(***************************************************************************)
(* Program constants.                                                      *)
(***************************************************************************)
START_TAG_IDX == -2
END_TAG_IDX == -1
FORBIDDEN == -10000

None == [none |-> TRUE]
\* How a call ends: it returns a value, or an indexing operation raises.
Returns(v) == [raised |-> "", value |-> v]
\* Tensor.view with a shape that does not hold the tensor's elements raises.
ShapeError == [raised |-> "shape mismatch", value |-> <<>>]

\* Mutant of IndexError: the indexing operation hands back garbage instead.
IndexError_Garbage == [raised |-> "", value |-> <<>>]

IndexError == [raised |-> "index out of bounds", value |-> <<>>]

(***************************************************************************)
(* Tensor helpers.                                                         *)
(***************************************************************************)
Range(n) == 0 .. (n - 1)

Size(x) == Cardinality(DOMAIN x)

\* F(v) with v evaluated once: the binding of a local variable.
With(v, F(_)) == CHOOSE y \in {F(x) : x \in {v}} : TRUE

\* Python's indexing with a negative index: x[-k] is x[len - k].
PyIndex(i, n) == IF i < 0 THEN i + n ELSE i

\* x.transpose(1, 0) of a tensor with two leading dimensions [n0, n1].
Transpose(x, n0, n1) == [c \in Range(n1) |-> [r \in Range(n0) |-> x[r][c]]]

\* x.contiguous().view(n0 * n1, ...): row-major flattening of two leading dims.
Flatten(x, n0, n1) == [n \in Range(n0 * n1) |-> x[n \div n1][n % n1]]

\* flat.view(n0, n1, ...): the inverse reshaping.
Unflatten(flat, n0, n1) == [r \in Range(n0) |-> [c \in Range(n1) |-> flat[r * n1 + c]]]

\* torch.sum(mask, dim=1) for one row.
RECURSIVE SumRow(_, _)
SumRow(row, n) == IF n = 0 THEN 0 ELSE row[n - 1] + SumRow(row, n - 1)

\* torch.max(x, dim): the value, and the index of the first maximal entry.
MaxVal(f, n) == CHOOSE m \in {f[i] : i \in Range(n)} : \A i \in Range(n) : f[i] <= m

ArgMax(f, n) ==
  CHOOSE i \in Range(n) : /\ \A k \in Range(n) : f[k] <= f[i]
                          /\ \A k \in Range(i) : f[k] < f[i]

\* torch.empty(n0, n1): memory that nothing has written yet; uninit is what
\* such memory holds at present.
Empty(n0, n1) == [r \in Range(n0) |-> [c \in Range(n1) |-> uninit]]

(***************************************************************************)
(* CRF.__init__                                                            *)
(***************************************************************************)
\* Mutant of init_transitions: row START and column END are filled instead.
init_transitions_Transposed(L) ==
  LET T == L + 2
      zeros == [i \in Range(T) |-> [j \in Range(T) |-> 0]]
      col == [i \in Range(T) |->
                [zeros[i] EXCEPT ![PyIndex(END_TAG_IDX, T)] = FORBIDDEN]]
  IN  [col EXCEPT ![PyIndex(START_TAG_IDX, T)] = [j \in Range(T) |-> FORBIDDEN]]

init_transitions(L) ==
  LET T == L + 2
      zeros == [i \in Range(T) |-> [j \in Range(T) |-> 0]]
      col == [i \in Range(T) |->
                [zeros[i] EXCEPT ![PyIndex(START_TAG_IDX, T)] = FORBIDDEN]]
  IN  [col EXCEPT ![PyIndex(END_TAG_IDX, T)] = [j \in Range(T) |-> FORBIDDEN]]

(***************************************************************************)
(* Storage.  The operations of a call that write a tensor in place, each   *)
(* as <<line, storage>> with the storage the written tensor lives in.  A   *)
(* tensor made by clone, by arithmetic, by torch.max, torch.cat or         *)
(* torch.empty has a storage of its own, named after it; the arguments of  *)
(* the call live in "feats", "mask", "tags" and "transitions", and the     *)
(* pairwise scores, made by an addition, in "scores".                      *)
(***************************************************************************)
\* Mutant of InPlaceWrites: the mask is negated in place at line 626.
InPlaceWrites_NegatesMask(call) ==
  IF call = "forward"
    THEN {<<626, "mask">>, <<639, "cur_bp">>, <<663, "back_points">>,
          <<668, "decode_idx">>, <<671, "decode_idx">>}
    ELSE {<<555, "partition">>, <<573, "new_tags">>, <<575, "new_tags">>}

InPlaceWrites(call) ==
  IF call = "forward"
    THEN {<<639, "cur_bp">>,       \* cur_bp.masked_fill_, cur_bp from torch.max
          <<663, "back_points">>,  \* back_points.scatter_, from torch.cat
          <<668, "decode_idx">>,   \* decode_idx[-1] = ..., from torch.empty
          <<671, "decode_idx">>}   \* decode_idx[idx] = ...
    ELSE {<<555, "partition">>,    \* partition.masked_scatter_, from .clone()
          <<573, "new_tags">>,     \* new_tags[:, 0] = ..., from torch.empty
          <<575, "new_tags">>}     \* new_tags[:, idx] = ...

\* What a storage holds once something has been written into it.
Overwritten(x) == [k \in DOMAIN x |-> <<>>]

\* What the storage of an argument holds after the call, x being what it
\* held before.
AfterCall(call, storage, x) ==
  IF \E w \in InPlaceWrites(call) : w[2] = storage THEN Overwritten(x) ELSE x

(***************************************************************************)
(* The pairwise score tensor built by _forward_alg and _viterbi_decode:    *)
(* scores[t][b][i][j] = feats[b][t][j] + transitions[i][j].                *)
(***************************************************************************)
\* Mutant of PairwiseScores: the emission is expanded along the to-axis, so
\* that it is indexed by the tag the transition leaves.
PairwiseScores_FromAxis(f, trans, bts, seq_len, tag_size) ==
  LET ins_num == bts * seq_len
  IN  With(Flatten(Transpose(f, bts, seq_len), seq_len, bts), LAMBDA flat :
      With([n \in Range(ins_num) |->
              [i \in Range(tag_size) |-> [j \in Range(tag_size) |-> flat[n][i]]]],
           LAMBDA expanded :
      With([n \in Range(ins_num) |->
              [i \in Range(tag_size) |->
                 [j \in Range(tag_size) |-> expanded[n][i][j] + trans[i][j]]]],
           LAMBDA sc : Unflatten(sc, seq_len, bts))))

PairwiseScores(f, trans, bts, seq_len, tag_size) ==
  LET ins_num == bts * seq_len
  IN  With(Flatten(Transpose(f, bts, seq_len), seq_len, bts), LAMBDA flat :
      With([n \in Range(ins_num) |->
              [i \in Range(tag_size) |-> [j \in Range(tag_size) |-> flat[n][j]]]],
           LAMBDA expanded :
      With([n \in Range(ins_num) |->
              [i \in Range(tag_size) |->
                 [j \in Range(tag_size) |-> expanded[n][i][j] + trans[i][j]]]],
           LAMBDA sc : Unflatten(sc, seq_len, bts))))

\* Mutant of FromStart: the entries for transitioning into START are read.
FromStart_IntoStart(inivalues, bts, tag_size) ==
  LET START == PyIndex(START_TAG_IDX, tag_size)
  IN  [b \in Range(bts) |-> [j \in Range(tag_size) |-> inivalues[b][j][START]]]

\* inivalues[:, START_TAG_IDX, :]: the entries of the first step for
\* transitioning from START, in _forward_alg and in _viterbi_decode.
FromStart(inivalues, bts, tag_size) ==
  LET START == PyIndex(START_TAG_IDX, tag_size)
  IN  [b \in Range(bts) |-> [j \in Range(tag_size) |-> inivalues[b][START][j]]]

(***************************************************************************)
(* CRF._viterbi_decode                                                     *)
(***************************************************************************)
\* One step of the loop: torch.max(cur_values, 1) with
\* cur_values[b][i][j] = scores[idx][b][i][j] + partition[b][i].
ViterbiStep(cur, partition, bts, tag_size) ==
  [b \in Range(bts) |->
     [j \in Range(tag_size) |->
        With([i \in Range(tag_size) |-> cur[b][i][j] + partition[b][i]],
             LAMBDA col : MaxVal(col, tag_size))]]

\* partition_history as [seq_len][bts][tag_size], built up to step t: the
\* running best score per tag; the partition is updated at padded steps too.
RECURSIVE ViterbiPartitions(_, _, _, _)
ViterbiPartitions(scores, t, bts, tag_size) ==
  IF t = 0
    THEN [k \in {0} |-> FromStart(scores[0], bts, tag_size)]
    ELSE With(ViterbiPartitions(scores, t - 1, bts, tag_size), LAMBDA hist :
         With(ViterbiStep(scores[t], hist[t - 1], bts, tag_size), LAMBDA partition :
           [k \in Range(t + 1) |-> IF k < t THEN hist[k] ELSE partition]))

\* Mutant of ViterbiBackPoints: the argmax is taken along the to-axis.
ViterbiBackPoints_ToAxis(scores, msk, ph, bts, seq_len, tag_size) ==
  [k \in Range(seq_len) |->
     IF k = seq_len - 1
       THEN [b \in Range(bts) |-> [j \in Range(tag_size) |-> 0]]
       ELSE [b \in Range(bts) |->
               [j \in Range(tag_size) |->
                  IF (1 - msk[b][k + 1]) = 1
                    THEN 0
                    ELSE With([i \in Range(tag_size) |->
                                 scores[k + 1][b][j][i] + ph[k][b][j]],
                              LAMBDA col : ArgMax(col, tag_size))]]]

\* Mutant of ViterbiBackPoints: cur_bp is kept as torch.max returned it.
ViterbiBackPoints_NoFill(scores, msk, ph, bts, seq_len, tag_size) ==
  [k \in Range(seq_len) |->
     IF k = seq_len - 1
       THEN [b \in Range(bts) |-> [j \in Range(tag_size) |-> 0]]
       ELSE [b \in Range(bts) |->
               [j \in Range(tag_size) |->
                  With([i \in Range(tag_size) |->
                          scores[k + 1][b][i][j] + ph[k][b][i]],
                       LAMBDA col : ArgMax(col, tag_size))]]]

\* back_points after the loop and the appended pad_zero: entry k holds the
\* argmax recorded at step k + 1, masked-filled with 0 where mask[b][k+1] = 0.
ViterbiBackPoints(scores, msk, ph, bts, seq_len, tag_size) ==
  [k \in Range(seq_len) |->
     IF k = seq_len - 1
       THEN [b \in Range(bts) |-> [j \in Range(tag_size) |-> 0]]
       ELSE [b \in Range(bts) |->
               [j \in Range(tag_size) |->
                  IF (1 - msk[b][k + 1]) = 1
                    THEN 0
                    ELSE With([i \in Range(tag_size) |->
                                 scores[k + 1][b][i][j] + ph[k][b][i]],
                              LAMBDA col : ArgMax(col, tag_size))]]]

\* Mutant of LastPosition: the step before the first masked-out one.
LastPosition_FirstZero(msk, bts, seq_len) ==
  [b \in Range(bts) |->
     Cardinality({t \in Range(seq_len) : \A k \in 0 .. t : msk[b][k] = 1}) - 1]

\* Mutant of LastPosition: one uniform last position, seq_len - 1, for the batch.
LastPosition_Uniform(msk, bts, seq_len) == [b \in Range(bts) |-> seq_len - 1]

\* last_position: length_mask - 1, the index of each sequence's last real step.
LastPosition(msk, bts, seq_len) == [b \in Range(bts) |-> SumRow(msk[b], seq_len) - 1]

\* Mutant of ViterbiPointer: the transition into END is left out of the argmax.
ViterbiPointer_NoEnd(ph, last_position, trans, bts, tag_size) ==
  [b \in Range(bts) |->
     With([i \in Range(tag_size) |-> ph[last_position[b]][b][i]],
          LAMBDA col : ArgMax(col, tag_size))]

\* pointer = last_bp[:, END]: the argmax over i of last_partition[b][i] +
\* transitions[i][END], last_partition gathered at last_position.
ViterbiPointer(ph, last_position, trans, bts, tag_size) ==
  LET END == PyIndex(END_TAG_IDX, tag_size)
  IN  [b \in Range(bts) |->
         With([i \in Range(tag_size) |-> ph[last_position[b]][b][i] + trans[i][END]],
              LAMBDA col : ArgMax(col, tag_size))]

\* Mutant of ScatterLast: the final tag is inserted at the last step of the
\* padded row, whatever the length of the sequence.
ScatterLast_LastStep(bp, last_position, pointer, bts, seq_len, tag_size) ==
  [k \in Range(seq_len) |->
     [b \in Range(bts) |->
        IF k = seq_len - 1 THEN [j \in Range(tag_size) |-> pointer[b]]
                           ELSE bp[k][b]]]

\* back_points.scatter_(1, last_position, insert_last)
ScatterLast(bp, last_position, pointer, bts, seq_len, tag_size) ==
  [k \in Range(seq_len) |->
     [b \in Range(bts) |->
        IF k = last_position[b] THEN [j \in Range(tag_size) |-> pointer[b]]
                                ELSE bp[k][b]]]

\* Mutant of WriteLast: the last row of decode_idx is cleared.
WriteLast_Cleared(decode_idx, pointer, seq_len) ==
  [decode_idx EXCEPT ![PyIndex(-1, seq_len)] = [b \in DOMAIN pointer |-> 0]]

\* Mutant of WriteLast: the last row of decode_idx is not written.
WriteLast_Skipped(decode_idx, pointer, seq_len) == decode_idx

\* decode_idx[-1] = pointer.data
WriteLast(decode_idx, pointer, seq_len) ==
  [decode_idx EXCEPT ![PyIndex(-1, seq_len)] = pointer]

\* The loop over idx = len(back_points) - 2 down to 0 on decode_idx as
\* [seq_len][bts]: the pointer follows back_points[idx] and is written at idx.
RECURSIVE Backtrack(_, _, _, _, _)
Backtrack(decode_idx, back_points, pointer, idx, bts) ==
  IF idx < 0 THEN decode_idx
  ELSE With([b \in Range(bts) |-> back_points[idx][b][pointer[b]]], LAMBDA prev :
         Backtrack([decode_idx EXCEPT ![idx] = prev], back_points, prev, idx - 1, bts))

_viterbi_decode(f, msk, trans) ==
  LET bts == Size(f)
      seq_len == Size(f[0])
      tag_size == Size(f[0][0])
      m_bts == Size(msk)
      m_len == Size(msk[0])
  \* length_mask is summed over the mask's own time steps
  IN  With(LastPosition(msk, m_bts, m_len), LAMBDA last_position :
      \* mask[idx] at idx = 1, the first pass of the loop
      IF seq_len > 1 /\ m_len = 1
        THEN IndexError
      \* mask[idx].view(bts, 1) in the loop, length_mask.view(bts, 1, 1) after it
      ELSE IF m_bts # bts
        THEN ShapeError
      \* mask[idx] at idx = m_len
      ELSE IF m_len < seq_len
        THEN IndexError
      \* torch.gather and scatter_ along dim 1 need 0 <= index < seq_len
      ELSE IF \E b \in Range(bts) : last_position[b] \notin Range(seq_len)
        THEN IndexError
        ELSE
      With(PairwiseScores(f, trans, bts, seq_len, tag_size), LAMBDA scores :
      With(ViterbiPartitions(scores, seq_len - 1, bts, tag_size), LAMBDA ph :
      With(ViterbiBackPoints(scores, msk, ph, bts, seq_len, tag_size), LAMBDA bp :
      With(ViterbiPointer(ph, last_position, trans, bts, tag_size), LAMBDA pointer :
      With(ScatterLast(bp, last_position, pointer, bts, seq_len, tag_size),
           LAMBDA back_points :
      With(WriteLast(Empty(seq_len, bts), pointer, seq_len), LAMBDA decode_idx :
        Returns(Transpose(Backtrack(decode_idx, back_points, pointer, seq_len - 2, bts),
                          seq_len, bts)))))))))

(***************************************************************************)
(* Values in the log domain.  A value produced by log-sum-exp is the bag of *)
(* the scores it sums: Single(x) is the score x itself, LogAddExp is       *)
(* log(exp v + exp w), Shift is v + c for a score c, Times is v + w.       *)
(***************************************************************************)
Single(x) == [y \in {x} |-> 1]

Shift(v, c) == [y \in {x + c : x \in DOMAIN v} |-> v[y - c]]

LogAddExp(v, w) == v (+) w

Scale(v, n) == [y \in DOMAIN v |-> n * v[y]]

RECURSIVE TimesAcc(_, _, _)
TimesAcc(S, v, w) ==
  IF S = {} THEN EmptyBag
  ELSE LET x == CHOOSE x \in S : TRUE
       IN  Scale(Shift(w, x), v[x]) (+) TimesAcc(S \ {x}, v, w)

Times(v, w) == TimesAcc(DOMAIN v, v, w)

\* torch.sum over the n entries of a vector of log-domain values.
RECURSIVE SumLog(_, _)
SumLog(vec, n) == IF n = 1 THEN vec[0] ELSE Times(SumLog(vec, n - 1), vec[n - 1])

\* torch.sum over the n entries of a vector of scores.
RECURSIVE SumVec(_, _)
SumVec(vec, n) == IF n = 0 THEN 0 ELSE SumVec(vec, n - 1) + vec[n - 1]

(***************************************************************************)
(* CRF.log_sum_exp(vec, m_size): over dim 1 of vec[b][i][j].  The maximum  *)
(* that the source subtracts before exp and adds back after log cancels.   *)
(***************************************************************************)
RECURSIVE LogSumOver(_, _)
LogSumOver(col, n) ==
  IF n = 1 THEN col[0] ELSE LogAddExp(LogSumOver(col, n - 1), col[n - 1])

log_sum_exp(vec, bts, m_size) ==
  [b \in Range(bts) |->
     [j \in Range(m_size) |->
        With([i \in Range(m_size) |-> vec[b][i][j]], LAMBDA col : LogSumOver(col, m_size))]]

\* Mutant of MaxScore: the first row is subtracted instead of the maximum.
MaxScore_FirstRow(vec, bts, m_size) ==
  [b \in Range(bts) |-> [j \in Range(m_size) |-> vec[b][0][j]]]

\* max_score[b][j]: torch.max(vec, 1) gives idx, torch.gather(vec, 1, idx)
\* the entry of vec at it.
MaxScore(vec, bts, m_size) ==
  [b \in Range(bts) |->
     [j \in Range(m_size) |->
        With([i \in Range(m_size) |-> vec[b][i][j]],
             LAMBDA col : col[ArgMax(col, m_size)])]]

\* vec - max_score.expand_as(vec): what torch.exp is applied to.
ExpArgs(vec, max_score, bts, m_size) ==
  [b \in Range(bts) |->
     [i \in Range(m_size) |->
        [j \in Range(m_size) |-> vec[b][i][j] - max_score[b][j]]]]

\* max_score + torch.log(torch.sum(torch.exp(vec - max_score), 1)) on a
\* tensor of scores, with what it computes on the way.
ShiftedLogSumExp(vec, bts, m_size) ==
  With(MaxScore(vec, bts, m_size), LAMBDA max_score :
  With(ExpArgs(vec, max_score, bts, m_size), LAMBDA exp_args :
    [max_score |-> max_score,
     exp_args |-> exp_args,
     result |->
       [b \in Range(bts) |->
          [j \in Range(m_size) |->
             With([i \in Range(m_size) |-> Single(exp_args[b][i][j])], LAMBDA col :
               Shift(LogSumOver(col, m_size), max_score[b][j]))]]]))

(***************************************************************************)
(* Tensor.masked_select and Tensor.masked_scatter_ on [n0][n1] tensors:    *)
(* both walk the positions where the mask is 1 in row-major order.         *)
(***************************************************************************)
Selected(m, n0, n1) == {n \in Range(n0 * n1) : m[n \div n1][n % n1] = 1}

MaskedSelect(x, m, n0, n1) ==
  With(Selected(m, n0, n1), LAMBDA sel :
    [k \in Range(Cardinality(sel)) |->
       LET n == CHOOSE n \in sel : Cardinality({q \in sel : q < n}) = k
       IN  x[n \div n1][n % n1]])

\* Mutant of MaskedScatter: the source fills x from its first position on.
MaskedScatter_FromTop(x, m, source, n0, n1) ==
  With(Selected(m, n0, n1), LAMBDA sel :
    [r \in Range(n0) |->
       [c \in Range(n1) |->
          IF r * n1 + c < Cardinality(sel) THEN source[r * n1 + c] ELSE x[r][c]]])

MaskedScatter(x, m, source, n0, n1) ==
  With(Selected(m, n0, n1), LAMBDA sel :
    [r \in Range(n0) |->
       [c \in Range(n1) |->
          IF m[r][c] = 1
            THEN source[Cardinality({q \in sel : q < r * n1 + c})]
            ELSE x[r][c]]])

(***************************************************************************)
(* CRF._forward_alg                                                        *)
(***************************************************************************)
\* Mutant of ForwardStep: the new partition replaces the old at every row.
ForwardStep_Unmasked(cur, partition, mask_row, bts, tag_size) ==
  With([b \in Range(bts) |->
          [i \in Range(tag_size) |->
             [j \in Range(tag_size) |-> Shift(partition[b][i], cur[b][i][j])]]],
       LAMBDA cur_values : log_sum_exp(cur_values, bts, tag_size))

\* Mutant of ForwardStep: the mask of the first element is applied to all.
ForwardStep_FirstMask(cur, partition, mask_row, bts, tag_size) ==
  With([b \in Range(bts) |->
          [i \in Range(tag_size) |->
             [j \in Range(tag_size) |-> Shift(partition[b][i], cur[b][i][j])]]],
       LAMBDA cur_values :
  With(log_sum_exp(cur_values, bts, tag_size), LAMBDA cur_partition :
  With([b \in Range(bts) |-> [j \in Range(tag_size) |-> mask_row[0]]], LAMBDA mask_idx :
  With(MaskedSelect(cur_partition, mask_idx, bts, tag_size), LAMBDA masked_cur_partition :
    MaskedScatter(partition, mask_idx, masked_cur_partition, bts, tag_size)))))

\* One pass of the loop body for step idx, on partition[b][i].
ForwardStep(cur, partition, mask_row, bts, tag_size) ==
  With([b \in Range(bts) |->
          [i \in Range(tag_size) |->
             [j \in Range(tag_size) |-> Shift(partition[b][i], cur[b][i][j])]]],
       LAMBDA cur_values :
  With(log_sum_exp(cur_values, bts, tag_size), LAMBDA cur_partition :
  With([b \in Range(bts) |-> [j \in Range(tag_size) |-> mask_row[b]]], LAMBDA mask_idx :
  With(MaskedSelect(cur_partition, mask_idx, bts, tag_size), LAMBDA masked_cur_partition :
    MaskedScatter(partition, mask_idx, masked_cur_partition, bts, tag_size)))))

\* partition after the loop has run steps 1 .. t.
RECURSIVE ForwardPartition(_, _, _, _, _)
ForwardPartition(scores, mask_t, t, bts, tag_size) ==
  IF t = 0
    THEN With(FromStart(scores[0], bts, tag_size), LAMBDA partition :
           [b \in Range(bts) |-> [j \in Range(tag_size) |-> Single(partition[b][j])]])
    ELSE With(ForwardPartition(scores, mask_t, t - 1, bts, tag_size), LAMBDA partition :
           ForwardStep(scores[t], partition, mask_t[t], bts, tag_size))

\* Mutant of FinalPartition: the column of START is read instead of END's.
FinalPartition_StartColumn(partition, trans, bts, tag_size) ==
  LET START == PyIndex(START_TAG_IDX, tag_size)
  IN  With([b \in Range(bts) |->
              [i \in Range(tag_size) |->
                 [j \in Range(tag_size) |-> Shift(partition[b][i], trans[i][j])]]],
           LAMBDA cur_values :
      With(log_sum_exp(cur_values, bts, tag_size), LAMBDA cur_partition :
        [b \in Range(bts) |-> cur_partition[b][START]]))

\* final_partition: one log-partition value per batch element.
FinalPartition(partition, trans, bts, tag_size) ==
  LET END == PyIndex(END_TAG_IDX, tag_size)
  IN  With([b \in Range(bts) |->
              [i \in Range(tag_size) |->
                 [j \in Range(tag_size) |-> Shift(partition[b][i], trans[i][j])]]],
           LAMBDA cur_values :
      With(log_sum_exp(cur_values, bts, tag_size), LAMBDA cur_partition :
        [b \in Range(bts) |-> cur_partition[b][END]]))

\* Returns final_partition, its sum over the batch, and scores as its storage
\* holds it once the loop has run.
_forward_alg(f, msk, trans) ==
  LET bts == Size(f)
      seq_len == Size(f[0])
      tag_size == Size(f[0][0])
  IN  With(Transpose(msk, bts, seq_len), LAMBDA mask_t :
      With(PairwiseScores(f, trans, bts, seq_len, tag_size), LAMBDA scores :
      With(ForwardPartition(scores, mask_t, seq_len - 1, bts, tag_size), LAMBDA partition :
      With(FinalPartition(partition, trans, bts, tag_size), LAMBDA final_partition :
        [final_partition |-> final_partition,
         sum |-> SumLog(final_partition, bts),
         scores |-> AfterCall("neg_log_likelihood_loss", "scores", scores)]))))

(***************************************************************************)
(* CRF._score_sentence                                                     *)
(***************************************************************************)
\* Mutant of NewTags: the step index is built as to * tag_size + from.
NewTags_Swapped(tgs, bts, seq_len, tag_size) ==
  [b \in Range(bts) |->
     [idx \in Range(seq_len) |->
        IF idx = 0 THEN (tag_size - 2) * tag_size + tgs[b][0]
                   ELSE tgs[b][idx] * tag_size + tgs[b][idx - 1]]]

\* The loop over idx in range(n) on new_tags as [btz][seq_len]: column idx
\* gets the flat index of the transition taken into tags[b][idx].
RECURSIVE FillNewTags(_, _, _, _, _)
FillNewTags(new_tags, tgs, n, bts, tag_size) ==
  IF n = 0 THEN new_tags
  ELSE With(FillNewTags(new_tags, tgs, n - 1, bts, tag_size), LAMBDA filled :
         [b \in Range(bts) |->
            [filled[b] EXCEPT ![n - 1] =
               IF n - 1 = 0 THEN (tag_size - 2) * tag_size + tgs[b][0]
                            ELSE tgs[b][n - 2] * tag_size + tgs[b][n - 1]]])

\* new_tags: torch.empty(btz, seq_len), then the loop over all its columns.
NewTags(tgs, bts, seq_len, tag_size) ==
  FillNewTags(Empty(bts, seq_len), tgs, seq_len, bts, tag_size)

\* Mutant of TgEnergy: the energies of all positions, padded ones included.
TgEnergy_Unmasked(gathered, msk, seq_len, btz) ==
  MaskedSelect(gathered, [t \in Range(seq_len) |-> [b \in Range(btz) |-> 1]], seq_len, btz)

\* Mutant of TgEnergy: the energy of the first step is kept whatever the mask.
TgEnergy_KeepsFirst(gathered, msk, seq_len, btz) ==
  MaskedSelect(gathered,
               [t \in Range(seq_len) |-> [b \in Range(btz) |-> IF t = 0 THEN 1 ELSE msk[b][t]]],
               seq_len, btz)

\* tg_energy: the gathered per-step energies at the positions the mask keeps.
TgEnergy(gathered, msk, seq_len, btz) ==
  MaskedSelect(gathered, Transpose(msk, btz, seq_len), seq_len, btz)

\* Mutant of EndIds: the gold tag at the last position of the padded row.
EndIds_LastColumn(tgs, length_mask, btz, seq_len) == [b \in Range(btz) |-> tgs[b][seq_len - 1]]

\* end_ids: the gold tag of each sequence's last real step.
EndIds(tgs, length_mask, btz, seq_len) == [b \in Range(btz) |-> tgs[b][length_mask[b] - 1]]

_score_sentence(scores, msk, tgs, trans) ==
  LET seq_len == Size(scores)
      btz == Size(scores[0])
      tag_size == Size(scores[0][0])
      END == PyIndex(END_TAG_IDX, tag_size)
  IN  With(Transpose(NewTags(tgs, btz, seq_len, tag_size), btz, seq_len), LAMBDA new_tags :
      With([b \in Range(btz) |-> SumRow(msk[b], seq_len)], LAMBDA length_mask :
      \* torch.gather(scores.view(seq_len, btz, -1), 2, new_tags)
      IF \E t \in Range(seq_len), b \in Range(btz) :
           new_tags[t][b] \notin Range(tag_size * tag_size)
        THEN IndexError
      \* torch.gather(tags, 1, length_mask - 1)
      ELSE IF \E b \in Range(btz) : (length_mask[b] - 1) \notin Range(seq_len)
        THEN IndexError
      \* torch.gather(end_transition, 1, end_ids)
      ELSE IF \E b \in Range(btz) : tgs[b][length_mask[b] - 1] \notin Range(tag_size)
        THEN IndexError
      ELSE
      With([t \in Range(seq_len) |->
              [b \in Range(btz) |->
                 scores[t][b][new_tags[t][b] \div tag_size][new_tags[t][b] % tag_size]]],
           LAMBDA gathered :
      With(TgEnergy(gathered, msk, seq_len, btz), LAMBDA tg_energy :
      With([b \in Range(btz) |-> [i \in Range(tag_size) |-> trans[i][END]]],
           LAMBDA end_transition :
      With(EndIds(tgs, length_mask, btz, seq_len), LAMBDA end_ids :
      With([b \in Range(btz) |-> end_transition[b][end_ids[b]]], LAMBDA end_energy :
        Returns(SumVec(tg_energy, Size(tg_energy)) + SumVec(end_energy, btz)))))))))

(***************************************************************************)
(* CRF.neg_log_likelihood_loss: (forward_score - gold_score) / bts, kept   *)
(* as numerator and denominator, with the two scores it is made of.        *)
(***************************************************************************)
\* Mutant of neg_log_likelihood_loss: the divisor is the number of real tokens.
neg_log_likelihood_loss_PerToken(f, msk, tgs, trans) ==
  LET bts == Size(f)
      seq_len == Size(f[0])
  IN  With(_forward_alg(f, msk, trans), LAMBDA fwd :
      With(_score_sentence(fwd.scores, msk, tgs, trans), LAMBDA gold_score :
        [final_partition |-> fwd.final_partition,
         forward_score |-> fwd.sum,
         gold_score |-> gold_score,
         loss |-> IF gold_score.raised # "" THEN gold_score
                  ELSE Returns([num |-> Shift(fwd.sum, 0 - gold_score.value),
                                den |-> SumVec([b \in Range(bts) |-> SumRow(msk[b], seq_len)],
                                               bts)])]))

neg_log_likelihood_loss(f, msk, tgs, trans) ==
  LET bts == Size(f)
  IN  With(_forward_alg(f, msk, trans), LAMBDA fwd :
      With(_score_sentence(fwd.scores, msk, tgs, trans), LAMBDA gold_score :
        [final_partition |-> fwd.final_partition,
         forward_score |-> fwd.sum,
         gold_score |-> gold_score,
         loss |-> IF gold_score.raised # "" THEN gold_score
                  ELSE Returns([num |-> Shift(fwd.sum, 0 - gold_score.value),
                                den |-> bts])]))

(***************************************************************************)
(* Inputs of a call: tensors that are 0 except for a bounded number of     *)
(* entries, with masks that are prefixes of true length >= 1.              *)
(***************************************************************************)
PrefixMask(len, seq_len) == [t \in Range(seq_len) |-> IF t < len THEN 1 ELSE 0]

Masks(bts, seq_len) ==
  {[b \in Range(bts) |-> PrefixMask(len[b], seq_len)] :
     len \in [Range(bts) -> 1 .. seq_len]}

\* The subsets of S with at most k members.
RECURSIVE SubsetsUpTo(_, _)
SubsetsUpTo(S, k) ==
  IF k = 0 THEN {{}}
  ELSE LET prev == SubsetsUpTo(S, k - 1)
       IN  prev \cup {P \cup {c} : P \in prev, c \in S}

\* An emission entry <<"feats", b, t, j, v>> or a gold tag <<"tags", b, t, 0, v>>.
EmissionEntries(bts, seq_len, tag_size) ==
  {<<"feats", b, t, j, v>> :
     b \in Range(bts), t \in Range(seq_len), j \in Range(tag_size), v \in EmitVals}

\* Gold tags are real tags; at a padded position also a value of PadTagVals.
TagEntries(msk, bts, seq_len, L) ==
  {e \in {<<"tags", b, t, 0, v>> :
            b \in Range(bts), t \in Range(seq_len), v \in (1 .. (L - 1)) \cup PadTagVals} :
     e[5] \in PadTagVals => msk[e[2]][e[3]] = 0}

\* No entry is given two values.
Consistent(P) ==
  \A e1 \in P, e2 \in P : (e1[1] = e2[1] /\ e1[2] = e2[2] /\ e1[3] = e2[3] /\ e1[4] = e2[4])
                            => e1 = e2

FeatsOf(P, bts, seq_len, tag_size) ==
  [b \in Range(bts) |-> [t \in Range(seq_len) |-> [j \in Range(tag_size) |->
     IF \E e \in P : e[1] = "feats" /\ e[2] = b /\ e[3] = t /\ e[4] = j
       THEN (CHOOSE e \in P : e[1] = "feats" /\ e[2] = b /\ e[3] = t /\ e[4] = j)[5]
       ELSE 0]]]

TagsOf(P, bts, seq_len) ==
  [b \in Range(bts) |-> [t \in Range(seq_len) |->
     IF \E e \in P : e[1] = "tags" /\ e[2] = b /\ e[3] = t
       THEN (CHOOSE e \in P : e[1] = "tags" /\ e[2] = b /\ e[3] = t)[5]
       ELSE 0]]

EmissionTensors(bts, seq_len, tag_size) ==
  {FeatsOf(P, bts, seq_len, tag_size) :
     P \in {Q \in SubsetsUpTo(EmissionEntries(bts, seq_len, tag_size), MaxNonzero) :
              Consistent(Q)}}

\* Tensors vec[b][i][j] of scores that are 0 or of large magnitude.
LargeTensors(bts, m_size) ==
  {FeatsOf(P, bts, m_size, m_size) :
     P \in {Q \in SubsetsUpTo({<<"feats", b, i, j, v>> :
                                  b \in Range(bts), i \in Range(m_size),
                                  j \in Range(m_size), v \in LargeVals}, MaxNonzero) :
              Consistent(Q)}}

\* Any mask of 0 and 1, prefix or not.
BinaryMasks(bts, seq_len) == [Range(bts) -> [Range(seq_len) -> {0, 1}]]

\* Emissions with at most MaxTrainNonzero nonzero entries.
FewEmissions(bts, seq_len, tag_size) ==
  {FeatsOf(P, bts, seq_len, tag_size) :
     P \in {P \in SubsetsUpTo(EmissionEntries(bts, seq_len, tag_size), MaxTrainNonzero) :
              Consistent(P)}}

\* Gold tags that are real tags at every position.
RealTags(bts, seq_len, L) ==
  {TagsOf(Q, bts, seq_len) :
     Q \in {Q \in SubsetsUpTo({<<"tags", b, t, 0, v>> :
                                  b \in Range(bts), t \in Range(seq_len),
                                  v \in 1 .. (L - 1)}, MaxTrainNonzero) :
              Consistent(Q)}}

\* <<feats, tags>> for a training call under mask msk: at most MaxTrainNonzero
\* nonzero emissions and at most MaxTrainNonzero nonzero gold tags.
TrainingTensors(msk, bts, seq_len, L) ==
  {<<FeatsOf(P, bts, seq_len, L + 2), TagsOf(Q, bts, seq_len)>> :
     P \in {P \in SubsetsUpTo(EmissionEntries(bts, seq_len, L + 2), MaxTrainNonzero) :
              Consistent(P)},
     Q \in {Q \in SubsetsUpTo(TagEntries(msk, bts, seq_len, L), MaxTrainNonzero) :
              Consistent(Q)}}

(***************************************************************************)
(* RoPEPositionEncoding of layers/position_encoding.py: the cos and sin    *)
(* tables are built on demand and kept.  A row of a table is named by the  *)
(* position it encodes.                                                    *)
(***************************************************************************)
\* get_sinusoid_encoding_table(n_position, d_hid): one row per position.
get_sinusoid_encoding_table(n_position) == [p \in Range(n_position) |-> p]

\* RoPEPositionEncoding.initialize(max_position)
initialize(max_position) ==
  With(get_sinusoid_encoding_table(max_position), LAMBDA table :
    [cos_position |-> [p \in DOMAIN table |-> <<"cos", table[p]>>],
     sin_position |-> [p \in DOMAIN table |-> <<"sin", table[p]>>]])

\* position_ids.max() + 1, or qw.shape[seq_dim] without position_ids.
RequestedLen(qw_len, position_ids) ==
  IF position_ids # <<>>
    THEN MaxVal(Flatten(position_ids, Size(position_ids), Size(position_ids[0])),
                Size(position_ids) * Size(position_ids[0])) + 1
    ELSE qw_len

\* Mutant of CacheAfter: the tables are rebuilt whenever seq_len is not the
\* cached length.
CacheAfter_OnChange(seq_len, cache) ==
  IF seq_len # cache.max_seq_len_cache
    THEN With(initialize(seq_len), LAMBDA t :
           [max_seq_len_cache |-> seq_len, cos_position |-> t.cos_position,
            sin_position |-> t.sin_position, initialized |-> TRUE])
    ELSE [cache EXCEPT !.initialized = FALSE]

\* The cache after the test of seq_len against max_seq_len_cache, and
\* whether initialize was called.
CacheAfter(seq_len, cache) ==
  IF seq_len > cache.max_seq_len_cache
    THEN With(initialize(seq_len), LAMBDA t :
           [max_seq_len_cache |-> seq_len, cos_position |-> t.cos_position,
            sin_position |-> t.sin_position, initialized |-> TRUE])
    ELSE [cache EXCEPT !.initialized = FALSE]

\* The row indices a call reads: position_ids, or 0 .. seq_len - 1.
RowsRead(seq_len, position_ids) ==
  IF position_ids # <<>>
    THEN {position_ids[b][t] : b \in DOMAIN position_ids, t \in DOMAIN position_ids[0]}
    ELSE Range(seq_len)

\* F.embedding(position_ids, table), or table[:seq_len] without position_ids.
RowsOf(table, seq_len, position_ids) ==
  IF position_ids # <<>>
    THEN IF \E r \in RowsRead(seq_len, position_ids) : r \notin DOMAIN table
           THEN IndexError
           ELSE Returns([b \in DOMAIN position_ids |->
                           [t \in DOMAIN position_ids[0] |-> table[position_ids[b][t]]]])
    ELSE Returns([p \in Range(IF seq_len < Size(table) THEN seq_len ELSE Size(table)) |->
                    table[p]])

(***************************************************************************)
(* RelativePositionsEncoding: the embeddings of the clipped distances      *)
(* between query and key positions, looked up once at construction.        *)
(***************************************************************************)
\* torch.clamp(x, lo, hi)
Clamp(x, lo, hi) == IF x < lo THEN lo ELSE IF x > hi THEN hi ELSE x

\* Mutant of FinalMat: the distance is shifted without being clipped.
FinalMat_Unclipped(qlen, klen, max_relative_position) ==
  [q \in Range(qlen) |-> [k \in Range(klen) |-> (k - q) + max_relative_position]]

\* final_mat: distance_mat clipped to [-M, M] and shifted by M.
FinalMat(qlen, klen, max_relative_position) ==
  [q \in Range(qlen) |->
     [k \in Range(klen) |->
        Clamp(k - q, 0 - max_relative_position, max_relative_position)
          + max_relative_position]]

\* nn.Embedding.from_pretrained(embeddings_table)(final_mat)
EmbeddingLookup(embeddings_table, final_mat) ==
  IF \E q \in DOMAIN final_mat : \E k \in DOMAIN final_mat[q] :
       final_mat[q][k] \notin DOMAIN embeddings_table
    THEN IndexError
    ELSE Returns([q \in DOMAIN final_mat |->
                    [k \in DOMAIN final_mat[q] |-> embeddings_table[final_mat[q][k]]]])

\* x[:n0, :n1]: a slice ends where the tensor ends.
SliceTopLeft(x, n0, n1) ==
  [q \in Range(IF n0 < Size(x) THEN n0 ELSE Size(x)) |->
     [k \in Range(IF n1 < Size(x[q]) THEN n1 ELSE Size(x[q])) |-> x[q][k]]]

(***************************************************************************)
(* State machine.  pc is "idle" between calls and otherwise names the call *)
(* that has just run; args holds the tensors and the transition matrix as  *)
(* they were passed, feats, mask and tags are the caller's tensors after   *)
(* the call, ret what it returned and locals the values it computed on the *)
(* way.                                                                    *)
(***************************************************************************)
Idle == pc = "idle"

Init ==
  /\ num_labels \in 1 .. MaxLabels
  /\ transitions = init_transitions(num_labels)
  /\ updates = 0
  /\ uninit = 0
  /\ pc = "idle"
  /\ args = None
  /\ feats = <<>>
  /\ mask = <<>>
  /\ tags = <<>>
  /\ ret = None
  /\ locals = None
  /\ max_seq_len_cache = -1
  /\ cos_position = <<>>
  /\ sin_position = <<>>
  /\ requested = -1
  /\ position_embeddings = <<>>

\* The optimizer writes the trainable parameter between calls.
OptimizerStep ==
  /\ Idle
  /\ updates < MaxUpdates
  /\ \E i \in Range(num_labels + 2), j \in Range(num_labels + 2), v \in TransVals :
       transitions' = [transitions EXCEPT ![i][j] = v]
  /\ updates' = updates + 1
  /\ UNCHANGED <<num_labels, uninit, pc, args, feats, mask, tags, ret, locals,
                 rope_vars, rel_vars>>

\* Training has left the parameter preferring the path that stays in tag 0:
\* START -> 0, 0 -> 0 and 0 -> END all hold v.
TrainToPrefer ==
  /\ Idle
  /\ updates < MaxUpdates
  /\ \E v \in PreferVals :
       transitions' =
         [i \in Range(num_labels + 2) |->
            [j \in Range(num_labels + 2) |->
               IF <<i, j>> \in {<<num_labels, 0>>, <<0, 0>>, <<0, num_labels + 1>>}
                 THEN v ELSE transitions[i][j]]]
  /\ updates' = updates + 1
  /\ UNCHANGED <<num_labels, uninit, pc, args, feats, mask, tags, ret, locals,
                 rope_vars, rel_vars>>

\* CRF.forward(f, m) runs to its end.
CallForward(f, m) ==
  /\ args' = [feats |-> f, mask |-> m, tags |-> <<>>, transitions |-> transitions]
  /\ feats' = AfterCall("forward", "feats", f)
  /\ mask' = AfterCall("forward", "mask", m)
  /\ tags' = <<>>
  /\ transitions' = AfterCall("forward", "transitions", transitions)
  /\ ret' = _viterbi_decode(f, m, transitions)
  /\ locals' = None
  /\ pc' = "forward"
  /\ UNCHANGED <<num_labels, updates, uninit, rope_vars, rel_vars>>

\* CRF.neg_log_likelihood_loss(f, m, tg) runs to its end.
CallLoss(f, m, tg) ==
  /\ args' = [feats |-> f, mask |-> m, tags |-> tg, transitions |-> transitions]
  /\ feats' = AfterCall("neg_log_likelihood_loss", "feats", f)
  /\ mask' = AfterCall("neg_log_likelihood_loss", "mask", m)
  /\ tags' = AfterCall("neg_log_likelihood_loss", "tags", tg)
  /\ transitions' = AfterCall("neg_log_likelihood_loss", "transitions", transitions)
  /\ \E r \in {neg_log_likelihood_loss(f, m, tg, transitions)} :
       /\ ret' = r.loss
       /\ locals' = [final_partition |-> r.final_partition,
                     forward_score |-> r.forward_score,
                     gold_score |-> r.gold_score]
  /\ pc' = "neg_log_likelihood_loss"
  /\ UNCHANGED <<num_labels, updates, uninit, rope_vars, rel_vars>>

\* CRF.forward(feats, mask) with any binary mask.
ForwardAnyMask ==
  /\ Idle
  /\ \E bts \in 1 .. MaxBatch, seq_len \in 1 .. MaxSeqLen :
       \E f \in FewEmissions(bts, seq_len, num_labels + 2), m \in BinaryMasks(bts, seq_len) :
         CallForward(f, m)

\* CRF.neg_log_likelihood_loss(feats, mask, tags) with any binary mask.
LossAnyMask ==
  /\ Idle
  /\ \E bts \in 1 .. MaxBatch, seq_len \in 1 .. MaxSeqLen :
       \E f \in FewEmissions(bts, seq_len, num_labels + 2), m \in BinaryMasks(bts, seq_len),
          tg \in RealTags(bts, seq_len, num_labels) :
         CallLoss(f, m, tg)

\* CRF.forward(feats, mask) with a mask of any shape.
ForwardAnyShape ==
  /\ Idle
  /\ \E bts \in 1 .. MaxBatch, seq_len \in 1 .. MaxSeqLen :
       \E m_bts \in 1 .. MaxBatch, m_len \in 1 .. MaxSeqLen :
         \E f \in FewEmissions(bts, seq_len, num_labels + 2), m \in Masks(m_bts, m_len) :
           CallForward(f, m)

\* CRF.log_sum_exp(vec, m_size) on a tensor of scores.
LogSumExp ==
  /\ Idle
  /\ \E bts \in 1 .. MaxBatch :
       \E vec \in LargeTensors(bts, num_labels + 2) :
         \E r \in {ShiftedLogSumExp(vec, bts, num_labels + 2)} :
           /\ args' = [vec |-> vec, m_size |-> num_labels + 2]
           /\ locals' = [max_score |-> r.max_score, exp_args |-> r.exp_args]
           /\ ret' = Returns(r.result)
  /\ pc' = "log_sum_exp"
  /\ UNCHANGED <<crf_vars, rope_vars, rel_vars>>

\* CRF.forward(feats, mask)
Forward ==
  /\ Idle
  /\ \E bts \in 1 .. MaxBatch, seq_len \in 1 .. MaxSeqLen :
       \E f \in EmissionTensors(bts, seq_len, num_labels + 2), m \in Masks(bts, seq_len) :
         CallForward(f, m)

\* CRF.neg_log_likelihood_loss(feats, mask, tags)
NegLogLikelihoodLoss ==
  /\ Idle
  /\ \E bts \in 1 .. MaxBatch, seq_len \in 1 .. MaxSeqLen :
       \E msk \in Masks(bts, seq_len) :
         \E ft \in TrainingTensors(msk, bts, seq_len, num_labels) :
           CallLoss(ft[1], msk, ft[2])

\* The caller takes the result; the tensors of the call are dropped.
Release ==
  /\ ~Idle
  /\ pc' = "idle"
  /\ args' = None
  /\ feats' = <<>>
  /\ mask' = <<>>
  /\ tags' = <<>>
  /\ ret' = None
  /\ locals' = None
  /\ UNCHANGED <<num_labels, transitions, updates, uninit, rope_vars, rel_vars>>

\* RoPEPositionEncoding.forward(qw, position_ids): qw of btz sequences of
\* qw_len positions, position_ids absent (<<>>) or one id per position.  It
\* returns qw * cos + qw2 * sin, kept as the rows of cos and of sin it takes.
RoPEForward ==
  /\ Idle
  /\ \E btz \in 1 .. MaxBatch, qw_len \in 1 .. MaxSeqLen :
       \E position_ids \in {<<>>} \cup [Range(btz) -> [Range(qw_len) -> 0 .. MaxPosition]] :
         \E seq_len \in {RequestedLen(qw_len, position_ids)} :
           \E c \in {CacheAfter(seq_len, [max_seq_len_cache |-> max_seq_len_cache,
                                           cos_position |-> cos_position,
                                           sin_position |-> sin_position,
                                           initialized |-> FALSE])} :
             \E cos \in {RowsOf(c.cos_position, seq_len, position_ids)},
                sin \in {RowsOf(c.sin_position, seq_len, position_ids)} :
               /\ max_seq_len_cache' = c.max_seq_len_cache
               /\ cos_position' = c.cos_position
               /\ sin_position' = c.sin_position
               /\ requested' = IF seq_len > requested THEN seq_len ELSE requested
               /\ args' = [qw |-> <<btz, qw_len>>, position_ids |-> position_ids]
               /\ locals' = [seq_len |-> seq_len, initialized |-> c.initialized,
                             rows |-> RowsRead(seq_len, position_ids)]
               /\ ret' = IF cos.raised # "" THEN cos
                         ELSE Returns([cos |-> cos.value, sin |-> sin.value])
  /\ pc' = "RoPEPositionEncoding.forward"
  /\ UNCHANGED <<crf_vars, rel_vars>>

\* RelativePositionsEncoding(qlen, klen, embedding_size, max_relative_position)
RelativePositionsEncoding_init ==
  /\ Idle
  /\ position_embeddings = <<>>
  /\ \E qlen \in 1 .. MaxSeqLen, klen \in 1 .. MaxSeqLen,
        max_relative_position \in 0 .. MaxRelative :
       \E vocab_size \in {max_relative_position * 2 + 1} :
         \E final_mat \in {FinalMat(qlen, klen, max_relative_position)} :
           \E r \in {EmbeddingLookup(get_sinusoid_encoding_table(vocab_size), final_mat)} :
             /\ position_embeddings' = IF r.raised = "" THEN r.value ELSE position_embeddings
             /\ args' = [qlen |-> qlen, klen |-> klen,
                         max_relative_position |-> max_relative_position]
             /\ locals' = [vocab_size |-> vocab_size, final_mat |-> final_mat]
             /\ ret' = IF r.raised = "" THEN Returns(<<>>) ELSE r
  /\ pc' = "RelativePositionsEncoding.__init__"
  /\ UNCHANGED <<crf_vars, rope_vars>>

\* RelativePositionsEncoding.forward(qlen, klen)
RelativePositionsEncoding_forward ==
  /\ Idle
  /\ position_embeddings # <<>>
  /\ \E qlen \in 0 .. (MaxSeqLen + 1), klen \in 0 .. (MaxSeqLen + 1) :
       /\ args' = [qlen |-> qlen, klen |-> klen]
       /\ ret' = Returns(SliceTopLeft(position_embeddings, qlen, klen))
  /\ locals' = None
  /\ pc' = "RelativePositionsEncoding.forward"
  /\ UNCHANGED <<crf_vars, rope_vars, rel_vars>>

\* Memory is recycled while the caller holds a result: what torch.empty
\* will hand out next holds something else.
Reallocate ==
  /\ ~Idle
  /\ uninit' \in GarbageVals \ {uninit}
  /\ UNCHANGED <<num_labels, transitions, updates, pc, args, feats, mask, tags, ret, locals,
                 rope_vars, rel_vars>>

\* The caller repeats the call of forward with the tensors it holds.
ForwardAgain ==
  /\ pc = "forward"
  /\ CallForward(feats, mask)

\* The caller repeats the call of neg_log_likelihood_loss likewise.
LossAgain ==
  /\ pc = "neg_log_likelihood_loss"
  /\ CallLoss(feats, mask, tags)

Next == OptimizerStep \/ Forward \/ NegLogLikelihoodLoss \/ Release

Spec == Init /\ [][Next]_vars

\* Inference only, and training only.
NextDecode == OptimizerStep \/ Forward \/ Release

SpecDecode == Init /\ [][NextDecode]_vars

NextTrain == OptimizerStep \/ NegLogLikelihoodLoss \/ Release

SpecTrain == Init /\ [][NextTrain]_vars

\* Inference with a parameter trained to prefer tag 0.
NextPrefer == TrainToPrefer \/ Forward \/ Release

SpecPrefer == Init /\ [][NextPrefer]_vars

\* Calls whose mask the caller has not made a prefix mask.
NextAnyMask == ForwardAnyMask \/ LossAnyMask \/ Release

SpecAnyMask == Init /\ [][NextAnyMask]_vars

\* Inference with a mask whose shape the caller has not matched to feats.
NextAnyShape == ForwardAnyShape \/ Release

SpecAnyShape == Init /\ [][NextAnyShape]_vars

\* The static method log_sum_exp on its own.
NextLogSumExp == LogSumExp \/ Release

SpecLogSumExp == Init /\ [][NextLogSumExp]_vars

\* Calls and their repetitions on a freshly constructed CRF.
NextRepeat ==
  Forward \/ NegLogLikelihoodLoss \/ Reallocate \/ ForwardAgain \/ LossAgain \/ Release

SpecRepeat == Init /\ [][NextRepeat]_vars

\* A RoPEPositionEncoding and its callers.
NextRoPE == RoPEForward \/ Release

SpecRoPE == Init /\ [][NextRoPE]_vars

\* A RelativePositionsEncoding, its construction and its callers.
NextRelative == RelativePositionsEncoding_init \/ RelativePositionsEncoding_forward \/ Release

SpecRelative == Init /\ [][NextRelative]_vars

(***************************************************************************)
(* What the claims are stated with: the shape of the call in progress, the *)
(* true length of element b, and the score the specification gives a tag   *)
(* sequence y of length len over emissions e[t][j], with START = L and     *)
(* END = L + 1.                                                            *)
(***************************************************************************)
L == num_labels

T == num_labels + 2

B == Size(feats)

S == Size(feats[0])

Len(b) == SumRow(mask[b], S)

Decoded == pc = "forward" /\ ret.raised = ""

RECURSIVE StepTerms(_, _, _, _)
StepTerms(e, y, trans, n) ==
  IF n = 1 THEN 0
  ELSE StepTerms(e, y, trans, n - 1) + trans[y[n - 2]][y[n - 1]] + e[n - 1][y[n - 1]]

PathScore(e, y, trans, len) ==
  trans[L][y[0]] + e[0][y[0]] + StepTerms(e, y, trans, len) + trans[y[len - 1]][L + 1]

Paths(len) == [Range(len) -> Range(T)]

\* Element b of the batch on its own, unpadded: S = Len(b), mask all ones.
AloneFeats(b) == [a \in {0} |-> [t \in Range(Len(b)) |-> feats[b][t]]]

AloneMask(b) == [a \in {0} |-> [t \in Range(Len(b)) |-> 1]]

AloneTags(b) == [a \in {0} |-> [t \in Range(Len(b)) |-> tags[b][t]]]

(***************************************************************************)
(* Claims about CRF.forward / _viterbi_decode, checked under SpecDecode.   *)
(***************************************************************************)
\* C1: the path decoded for element b at positions 0 .. len_b - 1 scores at
\* least as much as every tag sequence of length len_b over the T tags.
C1_ViterbiOptimal ==
  Decoded =>
    \A b \in Range(B) :
      With(PathScore(feats[b], ret.value[b], transitions, Len(b)), LAMBDA best :
        \A y \in Paths(Len(b)) : PathScore(feats[b], y, transitions, Len(b)) <= best)

\* A padded batch of two different lengths in which the decoded path of a
\* sequence of three steps changes tag and beats the all-zero path.
C1_Witness ==
  /\ Decoded
  /\ B = 2
  /\ Len(0) # Len(1)
  /\ \E b \in Range(B) :
       /\ Len(b) = 3
       /\ ret.value[b][0] # ret.value[b][1]
       /\ ret.value[b][1] # ret.value[b][2]
       /\ PathScore(feats[b], ret.value[b], transitions, 3)
            > PathScore(feats[b], [t \in Range(3) |-> 0], transitions, 3)

\* C2: every position t with len_b <= t <= S - 1 of the returned path holds 0.
C2_PaddedPositionsZero ==
  Decoded => \A b \in Range(B) : \A t \in Range(S) : t >= Len(b) => ret.value[b][t] = 0

\* C3: every tag decoded inside the true length is a real tag in [0, L).
C3_RealTagsOnly ==
  Decoded => \A b \in Range(B) : \A t \in Range(Len(b)) : ret.value[b][t] \in Range(L)

\* C8: the tags decoded for element b at positions 0 .. len_b - 1 in the
\* batch are those decoded when element b is decoded alone, unpadded.
C8_DecodeAloneEqualsInBatch ==
  Decoded =>
    \A b \in Range(B) :
      With(_viterbi_decode(AloneFeats(b), AloneMask(b), transitions), LAMBDA alone :
        /\ alone.raised = ""
        /\ \A t \in Range(Len(b)) : ret.value[b][t] = alone.value[0][t])

\* A batch of lengths 1 and 3 with a nonzero emission at a padded position of
\* the short element and a nonzero tag decoded for both elements.
C8_Witness ==
  /\ Decoded
  /\ B = 2
  /\ S = 3
  /\ \E b \in Range(B) :
       /\ Len(b) = 1
       /\ Len(1 - b) = 3
       /\ \E t \in 1 .. 2, j \in Range(T) : feats[b][t][j] # 0
       /\ ret.value[b][0] # 0
       /\ \E t \in Range(3) : ret.value[1 - b][t] # 0

\* C10: forward algorithm, gold-path scorer and Viterbi decoder read the
\* transition matrix alike, as Trans[from, to] with START = L and END = L + 1:
\* on element b alone, the gold-path score of the decoded path is its score
\* under that reading, and it is the largest score the forward algorithm sums.
C10_SameIndexing ==
  Decoded =>
    \A b \in Range(B) :
      With([a \in {0} |-> [t \in Range(Len(b)) |-> ret.value[b][t]]], LAMBDA y :
      With(_forward_alg(AloneFeats(b), AloneMask(b), transitions), LAMBDA fwd :
      With(_score_sentence(fwd.scores, AloneMask(b), y, transitions), LAMBDA gold :
        /\ gold.raised = ""
        /\ gold.value = PathScore(feats[b], y[0], transitions, Len(b))
        /\ gold.value \in DOMAIN fwd.sum
        /\ \A x \in DOMAIN fwd.sum : x <= gold.value)))

\* The optimizer has made the matrix asymmetric between two real tags, and a
\* decoded path of three steps takes that transition.
C10_Witness ==
  /\ Decoded
  /\ L = 2
  /\ transitions[0][1] # transitions[1][0]
  /\ \E b \in Range(B) :
       /\ Len(b) = 3
       /\ \E t \in 0 .. 1 : ret.value[b][t] = 0 /\ ret.value[b][t + 1] = 1

(***************************************************************************)
(* Claims about CRF.neg_log_likelihood_loss, _forward_alg and              *)
(* _score_sentence, checked under SpecTrain.                                *)
(***************************************************************************)
Trained == pc = "neg_log_likelihood_loss"

\* Every gold tag, padded positions included, is a real tag.
ValidTags == \A b \in Range(B) : \A t \in Range(S) : tags[b][t] \in Range(L)

\* The score of the gold path of element b.
GoldPath(b) == PathScore(feats[b], tags[b], transitions, Len(b))

\* T to the power n.
RECURSIVE Pow(_)
Pow(n) == IF n = 0 THEN 1 ELSE T * Pow(n - 1)

\* The n-th tag sequence of length len, n in 0 .. T^len - 1.
PathOf(n, len) == [t \in Range(len) |-> (n \div Pow(t)) % T]

\* The scores of all T^len_b tag sequences of element b, as a log-domain value.
AllPaths(b) ==
  With(Len(b), LAMBDA len :
  With([n \in Range(Pow(len)) |-> PathScore(feats[b], PathOf(n, len), transitions, len)],
       LAMBDA score :
    [x \in {score[n] : n \in DOMAIN score} |->
       Cardinality({n \in DOMAIN score : score[n] = x})]))

\* The sum over the batch of the per-element scores g[b].
BatchSum(g) == SumVec(g, B)

\* C4: with gold tags in [0, L) the call returns, the gold path of each
\* element is one of the paths its forward value sums, the gold-path score
\* is one of the terms of the forward value, and so is 0 of the loss.
C4_ForwardAtLeastGold ==
  (Trained /\ ValidTags) =>
    /\ ret.raised = ""
    /\ \A b \in Range(B) : GoldPath(b) \in DOMAIN locals.final_partition[b]
    /\ locals.gold_score.value \in DOMAIN locals.forward_score
    /\ 0 \in DOMAIN ret.value.num

\* A padded batch of two with a gold path that changes tag and scores less
\* than another path of the same element.
C4_Witness ==
  /\ Trained
  /\ ValidTags
  /\ B = 2
  /\ \E b \in Range(B) :
       /\ Len(b) < S
       /\ Len(b) >= 2
       /\ tags[b][0] # tags[b][1]
       /\ \E x \in DOMAIN locals.final_partition[b] : x > GoldPath(b)

\* C5: the forward value of element b is the semiring sum of the scores of
\* all T^len_b tag sequences, and the returned scalar is the sum of the
\* per-element values over the batch.
C5_ForwardIsSumOverPaths ==
  Trained =>
    With([b \in Range(B) |-> AllPaths(b)], LAMBDA all :
      /\ \A b \in Range(B) : locals.final_partition[b] = all[b]
      /\ locals.forward_score = SumLog(all, B))

\* A batch of two of lengths 3 and less, with a nonzero emission at a real
\* step and a transition the optimizer has changed.
C5_Witness ==
  /\ Trained
  /\ B = 2
  /\ updates = 1
  /\ \E b \in Range(B) :
       /\ Len(b) = 3
       /\ Len(1 - b) < 3
       /\ \E t \in Range(3), j \in Range(T) : feats[b][t][j] # 0
       /\ BagCardinality(locals.final_partition[b]) = T * T * T

\* C6: a call with gold tags in [0, L) returns, and whenever _score_sentence
\* returns, it returns the sum over the batch of the gold path scores, which
\* stop at len_b - 1 and enter END from the tag at len_b - 1.
C6_GoldScoreFormula ==
  Trained =>
    /\ ValidTags => locals.gold_score.raised = ""
    /\ locals.gold_score.raised = "" =>
         locals.gold_score.value = BatchSum([b \in Range(B) |-> GoldPath(b)])

\* A padded element whose last real tag differs from the tag at S - 1, with
\* the transition from the last real tag into END changed by the optimizer.
C6_Witness ==
  /\ Trained
  /\ locals.gold_score.raised = ""
  /\ \E b \in Range(B) :
       /\ Len(b) < S
       /\ tags[b][Len(b) - 1] # tags[b][S - 1]
       /\ transitions[tags[b][Len(b) - 1]][L + 1] # 0

\* C7: in a call that returns, the forward value of element b is the one
\* computed for it alone with S = len_b, and the gold-path score is the sum
\* of the gold-path scores computed for each element alone.
C7_PaddingInvariance ==
  (Trained /\ ret.raised = "") =>
    /\ \A b \in Range(B) :
         _forward_alg(AloneFeats(b), AloneMask(b), transitions).final_partition[0]
           = locals.final_partition[b]
    /\ With([b \in Range(B) |->
               _score_sentence(PairwiseScores(AloneFeats(b), transitions, 1, Len(b), T),
                               AloneMask(b), AloneTags(b), transitions)],
            LAMBDA alone :
         /\ \A b \in Range(B) : alone[b].raised = ""
         /\ locals.gold_score.value = BatchSum([b \in Range(B) |-> alone[b].value]))

\* A padded element with a nonzero emission and a nonzero gold tag at padded
\* positions.
C7_Witness ==
  /\ Trained
  /\ ret.raised = ""
  /\ \E b \in Range(B) :
       /\ Len(b) < S
       /\ \E t \in Len(b) .. (S - 1), j \in Range(T) : feats[b][t][j] # 0
       /\ \E t \in Len(b) .. (S - 1) : tags[b][t] \in 1 .. (L - 1)

\* The gold tags with every padded position set to 0.
ZeroPaddedTags ==
  [b \in Range(B) |-> [t \in Range(S) |-> IF t < Len(b) THEN tags[b][t] ELSE 0]]

\* C9: whatever integers the gold tags hold at padded positions, the call
\* returns, and returns the loss of the call with 0 at those positions.
C9_PaddedTagsIgnored ==
  Trained =>
    /\ ret.raised = ""
    /\ ret = neg_log_likelihood_loss(feats, mask, ZeroPaddedTags, transitions).loss

(***************************************************************************)
(* Claims about construction and the value of the loss.                    *)
(***************************************************************************)
\* C11: until the optimizer first writes it, transitions is the T x T matrix
\* that holds -10000 exactly where the column is START (L) or the row is END
\* (L + 1), and 0 everywhere else.
C11_InitialTransitions ==
  updates = 0 =>
    /\ DOMAIN transitions = 0 .. (L + 1)
    /\ \A i \in 0 .. (L + 1) :
         /\ DOMAIN transitions[i] = 0 .. (L + 1)
         /\ \A j \in 0 .. (L + 1) :
              transitions[i][j] = (IF j = L \/ i = L + 1 THEN -10000 ELSE 0)

\* A freshly constructed CRF(2): out of START and into END from a real tag
\* the matrix holds 0, into START and out of END it holds -10000.
C11_Witness ==
  /\ updates = 0
  /\ L = 2
  /\ transitions[L][0] = 0
  /\ transitions[1][L + 1] = 0
  /\ transitions[0][L] = -10000
  /\ transitions[L + 1][1] = -10000

\* C12: a call that returns returns (forward_score - gold_score) / B, with
\* forward_score and gold_score the batch sums of _forward_alg and of
\* _score_sentence on the pairwise scores _forward_alg built, and B the batch
\* size.
C12_LossFormula ==
  (Trained /\ ret.raised = "") =>
    With(_forward_alg(feats, mask, transitions), LAMBDA fwd :
      /\ locals.forward_score = fwd.sum
      /\ locals.gold_score = _score_sentence(fwd.scores, mask, tags, transitions)
      /\ ret.value.num = Shift(locals.forward_score, 0 - locals.gold_score.value)
      /\ ret.value.den = B)

\* A batch of two with more real tokens than elements, a gold path that is
\* not the only term of the forward score, and a nonzero gold score.
C12_Witness ==
  /\ Trained
  /\ ret.raised = ""
  /\ B = 2
  /\ Len(0) + Len(1) > B
  /\ locals.gold_score.value # 0
  /\ \E x \in DOMAIN ret.value.num : x # 0

(***************************************************************************)
(* Claims about what a call leaves alone and what its result depends on,   *)
(* checked under Spec.                                                      *)
(***************************************************************************)
\* C13: a step that is not the optimizer's leaves the transition matrix as
\* it was, and after a call of forward or neg_log_likelihood_loss the
\* caller's emission, mask and tag tensors hold what was passed.
C13_CallsChangeNothing ==
  [][/\ updates' = updates => transitions' = transitions
     /\ pc' # "idle" => /\ feats' = args'.feats
                        /\ mask' = args'.mask
                        /\ tags' = args'.tags
                        /\ transitions' = args'.transitions]_vars

\* A training call on a padded batch, where the forward algorithm scatters
\* into its partition in place, has returned after the optimizer has run.
C13_Witness ==
  /\ Trained
  /\ ret.raised = ""
  /\ updates = 1
  /\ B = 2
  /\ S = 3
  /\ Len(0) # Len(1)
  /\ transitions = args.transitions

\* C14: a call repeated with the same emissions, mask and tags and the same
\* transition matrix returns what the call before it returned, whatever the
\* memory that torch.empty hands out holds by then.
C14_Deterministic ==
  [][(pc # "idle" /\ pc' = pc) => (ret' = ret /\ locals' = locals)]_vars

\* Results of both calls on a padded batch of two, held while recycled
\* memory holds something else than it did during the call.
C14_Witness ==
  /\ uninit # 0
  /\ ret.raised = ""
  /\ B = 2
  /\ S = 3
  /\ Len(0) # Len(1)
  /\ \/ Trained /\ \E b \in Range(B) : \E t \in Range(S) : tags[b][t] # 0
     \/ Decoded /\ \E b \in Range(B) : \E t \in Range(S) : ret.value[b][t] # 0

(***************************************************************************)
(* Claim about decoding under a matrix that prefers tag 0, checked under   *)
(* SpecPrefer.                                                              *)
(***************************************************************************)
\* The most the emissions of one step can favour one tag over another.
Spread(row) ==
  CHOOSE d \in {row[i] - row[j] : i \in Range(T), j \in Range(T)} :
    \A i \in Range(T), j \in Range(T) : row[i] - row[j] <= d

\* The total emission margin of a sequence of len steps.
EmissionMargin(e, len) == SumVec([t \in Range(len) |-> Spread(e[t])], len)

\* The transitions of the path START, 0, ..., 0, END.
Preferred == {<<L, 0>>, <<0, 0>>, <<0, L + 1>>}

\* Each preferred transition exceeds every other one by more than margin.
Prefers(trans, margin) ==
  \A p \in Preferred : \A i \in Range(T), j \in Range(T) :
    <<i, j>> \notin Preferred => trans[p[1]][p[2]] > trans[i][j] + margin

\* C15: for L = 2, B = 1, S = 3 and an all-ones mask, when START -> 0, 0 -> 0
\* and 0 -> END exceed every other transition by more than the total emission
\* margin, the decoded path is [0, 0, 0].
C15_PreferredPathDecoded ==
  (/\ Decoded
   /\ L = 2
   /\ B = 1
   /\ S = 3
   /\ Len(0) = 3
   /\ Prefers(transitions, EmissionMargin(feats[0], 3)))
    => ret.value[0] = [t \in Range(3) |-> 0]

\* Such a call with two emissions that favour tag 1.
C15_Witness ==
  /\ Decoded
  /\ L = 2
  /\ B = 1
  /\ S = 3
  /\ Len(0) = 3
  /\ Prefers(transitions, EmissionMargin(feats[0], 3))
  /\ EmissionMargin(feats[0], 3) = 4
  /\ \E t \in Range(3) : feats[0][t][1] > feats[0][t][0]
  /\ ret.value[0] = [t \in Range(3) |-> 0]

(***************************************************************************)
(* Claim about CRF.log_sum_exp, checked under SpecLogSumExp.                *)
(***************************************************************************)
\* C16: in every column (b, j) every argument of exp is <= 0 and one of them
\* is 0, and the value returned, the maximum plus the log of the sum of the
\* exponentials, is the log-sum-exp of the column of vec.
C16_MaxShifted ==
  pc = "log_sum_exp" =>
    \A b \in DOMAIN args.vec : \A j \in Range(args.m_size) :
      /\ \A i \in Range(args.m_size) : locals.exp_args[b][i][j] <= 0
      /\ \E i \in Range(args.m_size) : locals.exp_args[b][i][j] = 0
      /\ \E i \in Range(args.m_size) : locals.max_score[b][j] = args.vec[b][i][j]
      /\ ret.value[b][j] =
           [x \in {args.vec[b][i][j] : i \in Range(args.m_size)} |->
              Cardinality({i \in Range(args.m_size) : args.vec[b][i][j] = x})]

\* A column that holds 1000000, and one that holds -1000000 next to 0.
C16_Witness ==
  /\ pc = "log_sum_exp"
  /\ \E b \in DOMAIN args.vec : \E i \in Range(args.m_size), j \in Range(args.m_size) :
       /\ args.vec[b][i][j] = 1000000
       /\ locals.max_score[b][j] = 1000000
  /\ \E b \in DOMAIN args.vec : \E i \in Range(args.m_size), j \in Range(args.m_size) :
       /\ locals.exp_args[b][i][j] = -1000000
       /\ locals.max_score[b][j] = 0

(***************************************************************************)
(* Claims about masks that are not prefixes of length >= 1, checked under  *)
(* SpecAnyMask.                                                             *)
(***************************************************************************)
Called == pc \in {"forward", "neg_log_likelihood_loss"}

\* Row b of the mask has a 1 after a 0.
NonPrefix(b) == \E t \in Range(S - 1) : mask[b][t] = 0 /\ mask[b][t + 1] = 1

C18_ZeroLengthReturns ==
  (Called /\ \E b \in Range(B) : Len(b) = 0) => ret.raised = ""

\* C18 as the code has it: a call with an all-zero mask row is not refused
\* before it computes, and ends in the index error of the gather at index
\* len - 1 = -1.
C18_ZeroLengthRaises ==
  (Called /\ \E b \in Range(B) : Len(b) = 0) =>
    /\ ret.raised = "index out of bounds"
    /\ Trained => /\ locals.gold_score.raised = "index out of bounds"
                  /\ locals.forward_score = _forward_alg(feats, mask, transitions).sum

\* A batch of two with one all-zero row next to a full row.
C18_Witness ==
  /\ Called
  /\ B = 2
  /\ S = 3
  /\ \E b \in Range(B) : Len(b) = 0 /\ Len(1 - b) = 3
  /\ ret.raised = "index out of bounds"

(***************************************************************************)
(* Claim about tensors that disagree in shape, checked under SpecAnyShape. *)
(***************************************************************************)
\* C19: a call of forward whose mask disagrees with the emissions in B or in
\* S ends in an error, not in a result.
C19_ShapeMismatchRaises ==
  (pc = "forward" /\ (Size(mask) # B \/ Size(mask[0]) # S)) => ret.raised # ""

(***************************************************************************)
(* Claim about one step of the forward recursion, checked under SpecTrain. *)
(***************************************************************************)
\* C20: at every step t >= 1 of _forward_alg, the partition of an element
\* with mask[b][t] = 0 is after the step what it was before it, and the
\* partition of an element with mask[b][t] = 1 becomes, for every tag j, the
\* log-sum-exp over i of partition[b][i] + feats[b][t][j] + transitions[i][j].
C20_MaskedStep ==
  Trained =>
    With(PairwiseScores(feats, transitions, B, S, T), LAMBDA scores :
    With(Transpose(mask, B, S), LAMBDA mask_t :
      \A t \in 1 .. (S - 1) :
        With(ForwardPartition(scores, mask_t, t - 1, B, T), LAMBDA before :
        With(ForwardStep(scores[t], before, mask_t[t], B, T), LAMBDA after :
          \A b \in Range(B) :
            IF mask[b][t] = 0
              THEN after[b] = before[b]
              ELSE \A j \in Range(T) :
                     after[b][j] =
                       LogSumOver([i \in Range(T) |->
                                     Shift(before[b][i],
                                           feats[b][t][j] + transitions[i][j])], T)))))

\* A step at which the first element of the batch is padding and the second
\* is real, with a nonzero emission on each of the two at that step or later.
C20_Witness ==
  /\ Trained
  /\ B = 2
  /\ S = 3
  /\ Len(0) = 1
  /\ Len(1) = 3
  /\ \E t \in 1 .. 2, j \in Range(T) : feats[1][t][j] # 0
  /\ ret.raised = ""

(***************************************************************************)
(* Claims about the values the two recursions are built from, checked      *)
(* under Spec.                                                             *)
(***************************************************************************)
\* C21: the score tensor _forward_alg returns, after its loop has run, and
\* the one _viterbi_decode builds hold feats[b][t][j] + transitions[i][j] at
\* [t][b][i][j], for every t, b, i and j.
C21_ScoresArePairwise ==
  /\ Trained =>
       With(_forward_alg(feats, mask, transitions).scores, LAMBDA scores :
         \A t \in Range(S), b \in Range(B), i \in Range(T), j \in Range(T) :
           scores[t][b][i][j] = feats[b][t][j] + transitions[i][j])
  /\ Decoded =>
       With(PairwiseScores(feats, transitions, B, S, T), LAMBDA scores :
         \A t \in Range(S), b \in Range(B), i \in Range(T), j \in Range(T) :
           scores[t][b][i][j] = feats[b][t][j] + transitions[i][j])

\* A training call whose loop has updated the partition of a real step in
\* place, with a nonzero emission and an updated transition.
C21_Witness ==
  /\ Trained
  /\ ret.raised = ""
  /\ updates = 1
  /\ S >= 2
  /\ \E b \in Range(B) : Len(b) >= 2 /\ \E t \in Range(S), j \in Range(T) : feats[b][t][j] # 0

\* C22: in _forward_alg and in _viterbi_decode the partition before the
\* first pass of the loop is, for every element b and every tag j in [0, T),
\* feats[b][0][j] + transitions[START][j].
C22_PartitionFromStart ==
  /\ Trained =>
       With(PairwiseScores(feats, transitions, B, S, T), LAMBDA scores :
       With(ForwardPartition(scores, Transpose(mask, B, S), 0, B, T), LAMBDA partition :
         \A b \in Range(B), j \in Range(T) :
           partition[b][j] = Single(feats[b][0][j] + transitions[L][j])))
  /\ Decoded =>
       With(PairwiseScores(feats, transitions, B, S, T), LAMBDA scores :
       With(ViterbiPartitions(scores, 0, B, T)[0], LAMBDA partition :
         \A b \in Range(B), j \in Range(T) :
           partition[b][j] = feats[b][0][j] + transitions[L][j]))

\* A decoding call with a nonzero emission at the first step for a tag the
\* optimizer has written the transition from START to.
C22_Witness ==
  /\ Decoded
  /\ \E b \in Range(B), j \in Range(L) :
       feats[b][0][j] # 0 /\ transitions[L][j] \in TransVals

(***************************************************************************)
(* Claims about the batch in training, checked under SpecTrain.            *)
(***************************************************************************)
\* Element b as a batch of one, padded as it is in the batch.
OneFeats(b) == [a \in {0} |-> feats[b]]

OneMask(b) == [a \in {0} |-> mask[b]]

OneTags(b) == [a \in {0} |-> tags[b]]

\* C23: the scalar of _forward_alg on a batch is the sum over b of the scalar
\* of _forward_alg on element b alone, with the same S and mask row, element
\* b's entry of final_partition being that scalar; and the scalar of
\* _score_sentence is the sum over b of its scalar on element b alone, which
\* raises for the batch exactly when it raises for one of the elements.
C23_BatchAdditive ==
  Trained =>
    With([b \in Range(B) |-> _forward_alg(OneFeats(b), OneMask(b), transitions)],
         LAMBDA alone :
    With([b \in Range(B) |-> _score_sentence(alone[b].scores, OneMask(b), OneTags(b),
                                              transitions)],
         LAMBDA gold :
      /\ \A b \in Range(B) : locals.final_partition[b] = alone[b].sum
      /\ locals.forward_score = SumLog([b \in Range(B) |-> alone[b].sum], B)
      /\ IF locals.gold_score.raised = ""
           THEN /\ \A b \in Range(B) : gold[b].raised = ""
                /\ locals.gold_score.value = BatchSum([b \in Range(B) |-> gold[b].value])
           ELSE \E b \in Range(B) : gold[b].raised # ""))

\* A batch of two elements of different true lengths, a nonzero emission in
\* one, a gold tag other than 0 in one, and a transition the optimizer wrote.
C23_Witness ==
  /\ Trained
  /\ ret.raised = ""
  /\ B = 2
  /\ Len(0) # Len(1)
  /\ updates = 1
  /\ \E b \in Range(B), t \in Range(S), j \in Range(T) : feats[b][t][j] # 0
  /\ \E b \in Range(B), t \in Range(S) : tags[b][t] # 0

(***************************************************************************)
(* Claims about the backpointers of _viterbi_decode, checked under         *)
(* SpecDecode.                                                             *)
(***************************************************************************)
\* back_points with v in place of every backpointer recorded at a padded step.
WithPaddedBackPoints(bp, v) ==
  [k \in Range(S) |->
     [b \in Range(B) |->
        [j \in Range(T) |->
           IF k < S - 1 /\ mask[b][k + 1] = 0 THEN v ELSE bp[k][b][j]]]]

\* C24: the backpointers recorded at a step t >= 1 with mask[b][t] = 0 are 0
\* for all T tags of element b, and whatever value stood in their place, the
\* tags decoded at the positions below the true length would be the same.
C24_PaddedBackPointers ==
  Decoded =>
    With(PairwiseScores(feats, transitions, B, S, T), LAMBDA scores :
    With(ViterbiPartitions(scores, S - 1, B, T), LAMBDA ph :
    With(ViterbiBackPoints(scores, mask, ph, B, S, T), LAMBDA bp :
    With(LastPosition(mask, B, S), LAMBDA last_position :
    With(ViterbiPointer(ph, last_position, transitions, B, T), LAMBDA pointer :
      /\ \A t \in 1 .. (S - 1), b \in Range(B), j \in Range(T) :
           mask[b][t] = 0 => bp[t - 1][b][j] = 0
      /\ \A v \in Range(T) :
           With(ScatterLast(WithPaddedBackPoints(bp, v), last_position, pointer, B, S, T),
                LAMBDA back_points :
           With(Backtrack(WriteLast(Empty(S, B), pointer, S), back_points, pointer,
                          S - 2, B),
                LAMBDA decode_idx :
             \A b \in Range(B) : \A t \in Range(Len(b)) :
               decode_idx[t][b] = ret.value[b][t])))))))

\* A padded element next to a full one, whose best tag before the padded
\* steps is not tag 0, so that torch.max records a backpointer other than 0.
C24_Witness ==
  /\ Decoded
  /\ B = 2
  /\ S = 3
  /\ Len(0) = 1
  /\ Len(1) = 3
  /\ \E j \in 1 .. (T - 1) : feats[0][0][j] # 0

FirstSet(b, v) == [mask EXCEPT ![b][0] = v]

\* The gold term of element b at step t.
GoldTerm(b, t) ==
  IF t = 0
    THEN transitions[L][tags[b][0]] + feats[b][0][tags[b][0]]
    ELSE transitions[tags[b][t - 1]][tags[b][t]] + feats[b][t][tags[b][t]]

\* C26: the forward value of every element is the same with mask[b][0] = 0
\* as with mask[b][0] = 1, a mask row of zeros giving what the row 1, 0, ..,
\* 0 gives; the gold score, when _score_sentence returns one, sums the terms
\* of the steps with mask[b][t] = 1 only, without the term of step 0 where
\* mask[b][0] = 0.
C26_FirstMaskUnread ==
  Trained =>
    /\ \A b \in Range(B), v \in {0, 1} :
         _forward_alg(feats, FirstSet(b, v), transitions).final_partition
           = locals.final_partition
    /\ locals.gold_score.raised = "" =>
         locals.gold_score.value =
           BatchSum([b \in Range(B) |->
                       SumVec([t \in Range(S) |-> mask[b][t] * GoldTerm(b, t)], S)
                         + transitions[tags[b][Len(b) - 1]][L + 1]])

\* A loss that is returned for an element masked out at step 0 whose gold
\* tag at step 0 has a nonzero emission.
C26_Witness ==
  /\ Trained
  /\ ret.raised = ""
  /\ \E b \in Range(B) : mask[b][0] = 0 /\ feats[b][0][tags[b][0]] # 0

(***************************************************************************)
(* Claim about the cache of RoPEPositionEncoding, checked under SpecRoPE.  *)
(***************************************************************************)
\* C27: max_seq_len_cache never decreases, and after every call of forward
\* it is the largest seq_len requested so far, the cos and sin tables have
\* max_seq_len_cache rows each, initialize has run in the call only if the
\* seq_len of the call exceeded the cached length, and every row the call
\* read is a row of the tables.
C27_CacheCoversRequests ==
  [][/\ max_seq_len_cache' >= max_seq_len_cache
     /\ pc' = "RoPEPositionEncoding.forward" =>
          /\ max_seq_len_cache' = requested'
          /\ Size(cos_position') = max_seq_len_cache'
          /\ Size(sin_position') = max_seq_len_cache'
          /\ locals'.initialized => locals'.seq_len > max_seq_len_cache
          /\ locals'.rows \subseteq DOMAIN cos_position'
          /\ locals'.rows \subseteq DOMAIN sin_position'
          /\ ret'.raised = ""]_vars

\* A call with position ids whose seq_len is below the cached length, after
\* a call that has built the tables.
C27_Witness ==
  /\ pc = "RoPEPositionEncoding.forward"
  /\ args.position_ids # <<>>
  /\ ~locals.initialized
  /\ locals.seq_len < max_seq_len_cache

(***************************************************************************)
(* Claims about RelativePositionsEncoding, checked under SpecRelative.     *)
(***************************************************************************)
\* The index of the claim for query position q and key position k.
ClippedIndex(q, k, M) == Clamp(k - q, 0 - M, M) + M

\* Construction has used, for every q and k, the index clamp(k - q, -M, M) + M,
\* which is in [0, 2M] and so a row of the table of 2M + 1 rows, and has
\* stored that row at [q][k].
IndicesInTable ==
  pc = "RelativePositionsEncoding.__init__" =>
    /\ ret.raised = ""
    /\ locals.vocab_size = 2 * args.max_relative_position + 1
    /\ Size(position_embeddings) = args.qlen
    /\ \A q \in Range(args.qlen) :
         /\ Size(position_embeddings[q]) = args.klen
         /\ \A k \in Range(args.klen) :
              /\ locals.final_mat[q][k] = ClippedIndex(q, k, args.max_relative_position)
              /\ locals.final_mat[q][k] \in 0 .. (2 * args.max_relative_position)
              /\ locals.final_mat[q][k] \in Range(locals.vocab_size)
              /\ position_embeddings[q][k] = locals.final_mat[q][k]

FinalTag(ph, b) ==
  With([i \in Range(T) |-> ph[Len(b) - 1][b][i] + transitions[i][L + 1]],
       LAMBDA last_values : ArgMax(last_values, T))

\* The backpointer of step t for tag j: the best tag to come from.
BackPointer(ph, b, t, j) ==
  With([i \in Range(T) |-> ph[t - 1][b][i] + feats[b][t][j] + transitions[i][j]],
       LAMBDA cur_values : ArgMax(cur_values, T))

\* C29: for every element b, the row of back_points at time index len_b - 1
\* holds the final tag of b in all T entries once scatter_ has run, the tag
\* decoded at position len_b - 1 is that final tag, and the tag decoded at
\* every position t < len_b - 1 is the backpointer of step t + 1 for the tag
\* decoded at t + 1.
C29_BacktrackFromTrueLength ==
  Decoded =>
    With(PairwiseScores(feats, transitions, B, S, T), LAMBDA scores :
    With(ViterbiPartitions(scores, S - 1, B, T), LAMBDA ph :
    With(LastPosition(mask, B, S), LAMBDA last_position :
    With(ScatterLast(ViterbiBackPoints(scores, mask, ph, B, S, T), last_position,
                     ViterbiPointer(ph, last_position, transitions, B, T), B, S, T),
         LAMBDA back_points :
      \A b \in Range(B) :
        /\ \A j \in Range(T) : back_points[Len(b) - 1][b][j] = FinalTag(ph, b)
        /\ ret.value[b][Len(b) - 1] = FinalTag(ph, b)
        /\ \A t \in 0 .. (Len(b) - 2) :
             ret.value[b][t] = BackPointer(ph, b, t + 1, ret.value[b][t + 1])))))

\* An element of true length 2 in three steps decoded to tags other than 0.
C29_Witness ==
  /\ Decoded
  /\ S = 3
  /\ \E b \in Range(B) : Len(b) = 2 /\ ret.value[b][1] # 0 /\ ret.value[b][0] # 0

=============================================================================
